---- MODULE Spec2Model ----
(***************************************************************************)
(* Tasks API (src/main.py): a FastAPI service over one SQLite table.       *)
(* The state is the task table, the wall clock, and the last request with  *)
(* its response; one action per route.  Strings are sequences of           *)
(* one-character strings; an Optional value is a sequence of length 0      *)
(* (None) or 1.                                                            *)
(***************************************************************************)
EXTENDS Integers, Sequences, FiniteSets, TLC

VARIABLES
    tasks,          \* rows of table "task"
    clock,          \* datetime.now(timezone.utc), non-decreasing
    req,            \* the last request handled
    resp,           \* its response: status and body (a sequence of rows)
    before,         \* the rows as they were when the last request arrived
    gone,           \* history: ids deleted (204) since the last successful create
    issued_before   \* history: ids returned by creates before the last request

vars == <<tasks, clock, req, resp, before, gone, issued_before>>

----------------------------------------------------------------------------
(* Bounds of the model *)

MaxId == 2
MaxListId == 3
MaxClock == 1
MaxLimit == 3
MaxOffset == 1

----------------------------------------------------------------------------
(* Strings and optional values *)

None == <<>>
Some(v) == <<v>>
IsNone(o) == o = <<>>
Val(o) == o[1]

Whitespace == {" ", "\t", "\n"}

RECURSIVE LStrip(_)
LStrip(s) ==
    IF s # <<>> /\ Head(s) \in Whitespace THEN LStrip(Tail(s)) ELSE s

RECURSIVE RStrip(_)
RStrip(s) ==
    IF s # <<>> /\ s[Len(s)] \in Whitespace
    THEN RStrip(SubSeq(s, 1, Len(s) - 1)) ELSE s

\* str.strip()
Strip(s) == RStrip(LStrip(s))

\* str.startswith(p)
StartsWith(s, p) == Len(s) >= Len(p) /\ SubSeq(s, 1, Len(p)) = p

\* str.removeprefix(p)
RemovePrefix(s, p) ==
    IF StartsWith(s, p) THEN SubSeq(s, Len(p) + 1, Len(s)) ELSE s

Min(a, b) == IF a < b THEN a ELSE b

----------------------------------------------------------------------------
(* Configuration and models *)

API_TOKEN == <<"t">>

BearerPrefix == <<"B", "e", "a", "r", "e", "r", " ">>

DefaultDescription == <<"d", "e", "s", "c">>

\* A row of class Task
Row(id, title, description, done, created_at) ==
    [id |-> id, title |-> title, description |-> description,
     done |-> done, created_at |-> created_at]

\* A request body: absent and null fields are both None
Payload(title, description, done) ==
    [title |-> title, description |-> description, done |-> done]

\* Faulty variant: a blank title is trimmed and let through
title_blank_accepted(v) ==
    IF IsNone(v) THEN [ok |-> TRUE, value |-> v]
    ELSE [ok |-> TRUE, value |-> Some(Strip(Val(v)))]

\* TaskCreate.title_not_blank_if_provided
title_not_blank_if_provided(v) ==
    IF IsNone(v) THEN [ok |-> TRUE, value |-> v]
    ELSE IF Strip(Val(v)) = <<>> THEN [ok |-> FALSE, value |-> v]
    ELSE [ok |-> TRUE, value |-> Some(Strip(Val(v)))]

\* Faulty variant: the title is checked but stored as sent, untrimmed
title_if_present_untrimmed(v) ==
    IF ~IsNone(v) /\ Strip(Val(v)) = <<>> THEN [ok |-> FALSE, value |-> v]
    ELSE [ok |-> TRUE, value |-> v]

\* TaskUpdate.title_if_present_must_not_be_blank
title_if_present_must_not_be_blank(v) ==
    IF ~IsNone(v) /\ Strip(Val(v)) = <<>> THEN [ok |-> FALSE, value |-> v]
    ELSE [ok |-> TRUE, value |-> IF ~IsNone(v) THEN Some(Strip(Val(v))) ELSE v]

\* Parsing a body as TaskCreate: the validated payload, or a validation error
TaskCreate(p) ==
    LET t == title_not_blank_if_provided(p.title)
    IN  [ok |-> t.ok, value |-> Payload(t.value, p.description, p.done)]

\* Parsing a body as TaskUpdate
TaskUpdate(p) ==
    LET t == title_if_present_must_not_be_blank(p.title)
    IN  [ok |-> t.ok, value |-> Payload(t.value, p.description, p.done)]

----------------------------------------------------------------------------
(* Storage *)

Ids(db) == {t.id : t \in db}

\* session.get(Task, task_id): the rows with that primary key (none or one)
SessionGet(db, task_id) == {t \in db : t.id = task_id}

\* The key SQLite gives an INTEGER PRIMARY KEY row inserted without one:
\* one more than the largest key in the table
NextRowid(db) ==
    IF db = {} THEN 1
    ELSE (CHOOSE i \in Ids(db) : \A j \in Ids(db) : j <= i) + 1

\* ORDER BY created_at, id
KeyLeq(a, b) ==
    \/ a.created_at < b.created_at
    \/ a.created_at = b.created_at /\ a.id <= b.id

RECURSIVE OrderBy(_, _)
OrderBy(S, asc) ==
    IF S = {} THEN <<>>
    ELSE LET m == CHOOSE t \in S : \A u \in S :
                     IF asc THEN KeyLeq(t, u) ELSE KeyLeq(u, t)
         IN  <<m>> \o OrderBy(S \ {m}, asc)

\* query.offset(n)
Offset(s, n) == SubSeq(s, n + 1, Len(s))

\* query.limit(n)
Limit(s, n) == SubSeq(s, 1, Min(n, Len(s)))

----------------------------------------------------------------------------
(* Responses *)

Out(status, body, db) == [status |-> status, body |-> body, tasks |-> db]

\* Faulty variant: any Bearer header is let through
require_bearer_any_token(auth) ==
    LET header == IF IsNone(auth) THEN <<>> ELSE Val(auth)
    IN  IF ~StartsWith(header, BearerPrefix) THEN 401 ELSE 0

\* require_bearer_token: 0 when the request may proceed, else the error status
require_bearer_token(auth) ==
    LET header == IF IsNone(auth) THEN <<>> ELSE Val(auth)
    IN  IF ~StartsWith(header, BearerPrefix) THEN 401
        ELSE IF Strip(RemovePrefix(header, BearerPrefix)) # API_TOKEN THEN 401
        ELSE 0

\* create_task: title None violates the NOT NULL column at commit
create_task(db, payload, now) ==
    LET description ==
            IF ~IsNone(payload.description) /\ Val(payload.description) # <<>>
            THEN Strip(Val(payload.description)) ELSE DefaultDescription
        done == IF ~IsNone(payload.done) THEN Val(payload.done) ELSE FALSE
    IN  IF IsNone(payload.title) THEN Out(500, <<>>, db)
        ELSE LET task == Row(NextRowid(db), Val(payload.title), description,
                             done, now)
             IN  Out(201, <<task>>, db \cup {task})

\* Faulty variant: the limit is applied before the offset
list_tasks_limit_first(db, limit, offset, sort, done) ==
    LET rows == IF ~IsNone(done) THEN {t \in db : t.done = Val(done)} ELSE db
        ordered == IF sort = "oldest" THEN OrderBy(rows, TRUE)
                   ELSE OrderBy(rows, FALSE)
    IN  Out(200, Offset(Limit(ordered, limit), offset), db)

\* list_tasks
list_tasks(db, limit, offset, sort, done) ==
    LET rows == IF ~IsNone(done) THEN {t \in db : t.done = Val(done)} ELSE db
        ordered == IF sort = "oldest" THEN OrderBy(rows, TRUE)
                   ELSE OrderBy(rows, FALSE)
    IN  Out(200, Limit(Offset(ordered, offset), limit), db)

\* get_task
get_task(db, task_id) ==
    LET found == SessionGet(db, task_id)
    IN  IF found = {} THEN Out(404, <<>>, db)
        ELSE Out(200, <<CHOOSE t \in found : TRUE>>, db)

\* Faulty variant: a full replacement, absent fields fall back to defaults
update_task_replace(db, task_id, payload) ==
    LET found == SessionGet(db, task_id)
    IN  IF found = {} THEN Out(404, <<>>, db)
        ELSE LET task == CHOOSE t \in found : TRUE
                 new == [task EXCEPT
                    !.title = IF ~IsNone(payload.title)
                              THEN Val(payload.title) ELSE @,
                    !.description = IF ~IsNone(payload.description)
                                    THEN Val(payload.description)
                                    ELSE DefaultDescription,
                    !.done = IF ~IsNone(payload.done)
                             THEN Val(payload.done) ELSE FALSE]
             IN  Out(200, <<new>>, (db \ {task}) \cup {new})

\* Faulty variant: an unknown id is inserted instead of reported
update_task_upsert(db, task_id, payload) ==
    LET found == SessionGet(db, task_id)
        task == IF found = {}
                THEN Row(task_id, <<"n", "e", "w">>, DefaultDescription, FALSE, 0)
                ELSE CHOOSE t \in found : TRUE
        new == [task EXCEPT
                    !.title = IF ~IsNone(payload.title)
                              THEN Val(payload.title) ELSE @,
                    !.description = IF ~IsNone(payload.description)
                                    THEN Val(payload.description) ELSE @,
                    !.done = IF ~IsNone(payload.done)
                             THEN Val(payload.done) ELSE @]
    IN  Out(200, <<new>>, (db \ found) \cup {new})

\* update_task
update_task(db, task_id, payload) ==
    LET found == SessionGet(db, task_id)
    IN  IF found = {} THEN Out(404, <<>>, db)
        ELSE LET task == CHOOSE t \in found : TRUE
                 new == [task EXCEPT
                    !.title = IF ~IsNone(payload.title)
                              THEN Val(payload.title) ELSE @,
                    !.description = IF ~IsNone(payload.description)
                                    THEN Val(payload.description) ELSE @,
                    !.done = IF ~IsNone(payload.done)
                             THEN Val(payload.done) ELSE @]
             IN  Out(200, <<new>>, (db \ {task}) \cup {new})

\* Faulty variant: 204 is returned but the row is kept
delete_task_keeps_row(db, task_id) ==
    LET found == SessionGet(db, task_id)
    IN  IF found = {} THEN Out(404, <<>>, db)
        ELSE Out(204, <<>>, db)

\* delete_task
delete_task(db, task_id) ==
    LET found == SessionGet(db, task_id)
    IN  IF found = {} THEN Out(404, <<>>, db)
        ELSE Out(204, <<>>, db \ found)

\* ping
ping(db) == Out(200, <<>>, db)

----------------------------------------------------------------------------
(* Routes: dependencies first, then body validation, then the handler *)

post_tasks(db, auth, p, now) ==
    IF require_bearer_token(auth) # 0
    THEN Out(require_bearer_token(auth), <<>>, db)
    ELSE IF ~TaskCreate(p).ok THEN Out(422, <<>>, db)
    ELSE create_task(db, TaskCreate(p).value, now)

patch_task(db, auth, task_id, p) ==
    IF require_bearer_token(auth) # 0
    THEN Out(require_bearer_token(auth), <<>>, db)
    ELSE IF ~TaskUpdate(p).ok THEN Out(422, <<>>, db)
    ELSE update_task(db, task_id, TaskUpdate(p).value)

delete_route(db, auth, task_id) ==
    IF require_bearer_token(auth) # 0
    THEN Out(require_bearer_token(auth), <<>>, db)
    ELSE delete_task(db, task_id)

----------------------------------------------------------------------------
(* Inputs *)

NoPayload == Payload(None, None, None)

Request(op, auth, id, payload, limit, offset, sort, done) ==
    [op |-> op, auth |-> auth, id |-> id, payload |-> payload,
     limit |-> limit, offset |-> offset, sort |-> sort, done |-> done]

\* Authorization headers: absent, good, good with padding, wrong token,
\* not a Bearer header
GoodHeader == Some(BearerPrefix \o API_TOKEN)
Headers ==
    { None,
      GoodHeader,
      Some(BearerPrefix \o <<" ">> \o API_TOKEN \o <<" ">>),
      Some(BearerPrefix \o <<"x">>),
      Some(API_TOKEN) }

\* Titles: absent or null, empty, blank, plain, padded
Titles == {None, Some(<<>>), Some(<<" ">>), Some(<<"a">>),
           Some(<<" ", "b", " ">>)}
Descriptions == {None, Some(<<"d">>)}
Dones == {None, Some(TRUE), Some(FALSE)}

\* Bodies: each field alone, and all three together
Payloads ==
    {Payload(t, None, None) : t \in Titles}
    \cup {Payload(None, d, None) : d \in Descriptions}
    \cup {Payload(None, None, b) : b \in Dones}
    \cup {Payload(Some(<<" ", "b", " ">>), Some(<<"d">>), Some(TRUE))}

\* Bodies that carry a title (or nothing at all)
TitlePayloads == {Payload(t, None, None) : t \in Titles}

\* Bodies of the creates of the update specification
CreatePayloads ==
    { Payload(Some(<<"a">>), None, None),
      Payload(Some(<<" ", "b", " ">>), Some(<<" ", "d">>), Some(TRUE)) }

\* The inputs of the listing specification: one title, one description
ListPayloads == {Payload(Some(<<"a">>), None, b) : b \in {None, Some(TRUE)}}

----------------------------------------------------------------------------
(* Actions *)

Init ==
    /\ tasks = {}
    /\ clock = 0
    /\ req = Request("none", None, 0, NoPayload, 0, 0, "newest", None)
    /\ resp = [status |-> 0, body |-> <<>>]
    /\ before = {}
    /\ gone = {}
    /\ issued_before = {}

\* Record request r and its outcome
Respond(r, out) ==
    /\ req' = r
    /\ resp' = [status |-> out.status, body |-> out.body]
    /\ before' = tasks
    /\ tasks' = out.tasks
    /\ gone' = IF r.op = "create" /\ out.status = 201 THEN {}
               ELSE IF r.op = "delete" /\ out.status = 204
                    THEN gone \cup {r.id}
               ELSE gone
    /\ issued_before' =
           IF req.op = "create" /\ resp.status = 201
           THEN issued_before \cup {resp.body[1].id}
           ELSE issued_before
    /\ UNCHANGED clock

\* Time passes
Tick ==
    /\ clock < MaxClock
    /\ clock' = clock + 1
    /\ UNCHANGED <<tasks, req, resp, before, gone, issued_before>>

Ping ==
    Respond(Request("ping", None, 0, NoPayload, 0, 0, "newest", None),
            ping(tasks))

PostTasks(headers, payloads, maxId) ==
    \E h \in headers, p \in payloads :
        /\ NextRowid(tasks) <= maxId
        /\ Respond(Request("create", h, 0, p, 0, 0, "newest", None),
                   post_tasks(tasks, h, p, clock))

ListTasks(limits, offsets, sorts, dones) ==
    \E l \in limits, o \in offsets, s \in sorts, d \in dones :
        Respond(Request("list", None, 0, NoPayload, l, o, s, d),
                list_tasks(tasks, l, o, s, d))

GetTask(maxId) ==
    \E i \in 1..maxId :
        Respond(Request("get", None, i, NoPayload, 0, 0, "newest", None),
                get_task(tasks, i))

PatchTask(headers, payloads, maxId) ==
    \E h \in headers, i \in 1..maxId, p \in payloads :
        Respond(Request("update", h, i, p, 0, 0, "newest", None),
                patch_task(tasks, h, i, p))

DeleteTask(headers, maxId) ==
    \E h \in headers, i \in 1..maxId :
        Respond(Request("delete", h, i, NoPayload, 0, 0, "newest", None),
                delete_route(tasks, h, i))

\* Validation and authorization: every header, every title
Next ==
    \/ Tick
    \/ Ping
    \/ PostTasks(Headers, TitlePayloads, MaxId)
    \/ ListTasks({MaxLimit}, {0}, {"newest", "oldest", "other"}, Dones)
    \/ GetTask(MaxId)
    \/ PatchTask(Headers, TitlePayloads, MaxId)
    \/ DeleteTask(Headers, MaxId)

Spec == Init /\ [][Next]_vars

\* Partial update: authorized requests, every body
NextUpdate ==
    \/ Tick
    \/ PostTasks({GoodHeader}, CreatePayloads, MaxId)
    \/ PatchTask({GoodHeader}, Payloads, MaxId)
    \/ DeleteTask({GoodHeader}, MaxId)

SpecUpdate == Init /\ [][NextUpdate]_vars

\* Listing: up to MaxListId rows, every page
NextList ==
    \/ Tick
    \/ PostTasks({GoodHeader}, ListPayloads, MaxListId)
    \/ ListTasks(1..MaxLimit, 0..MaxOffset, {"newest", "oldest"}, Dones)
    \/ PatchTask({GoodHeader}, {Payload(None, None, Some(TRUE))}, MaxListId)
    \/ DeleteTask({GoodHeader}, MaxListId)

SpecList == Init /\ [][NextList]_vars

----------------------------------------------------------------------------
(* Vocabulary of the properties *)

\* Every character is whitespace (the empty string included)
Blank(s) == \A i \in 1..Len(s) : s[i] \in Whitespace

\* The token a header carries: what follows "Bearer ", padding ignored
CarriedToken(h) == Strip(SubSeq(Val(h), Len(BearerPrefix) + 1, Len(Val(h))))

IsBearer(h) ==
    /\ ~IsNone(h)
    /\ Len(Val(h)) >= Len(BearerPrefix)
    /\ \A i \in 1..Len(BearerPrefix) : Val(h)[i] = BearerPrefix[i]

Authorized(h) == IsBearer(h) /\ CarriedToken(h) = API_TOKEN

Mutating == {"create", "update", "delete"}

Unchanged == tasks = before

\* The row of db with the given id
RowOf(db, id) == CHOOSE t \in db : t.id = id

\* a comes strictly before b in the listing order
Precedes(a, b, sort) ==
    IF sort = "oldest"
    THEN \/ a.created_at < b.created_at
         \/ a.created_at = b.created_at /\ a.id < b.id
    ELSE \/ a.created_at > b.created_at
         \/ a.created_at = b.created_at /\ a.id > b.id

Max(a, b) == IF a > b THEN a ELSE b

BodyIds == [i \in 1..Len(resp.body) |-> resp.body[i].id]

----------------------------------------------------------------------------
(* Properties *)

\* C1: an authorized POST /tasks whose title is empty or only whitespace
\* returns 422 and leaves the stored tasks as they were.
C1_BlankTitleRejected ==
    (/\ req.op = "create"
     /\ Authorized(req.auth)
     /\ ~IsNone(req.payload.title)
     /\ Blank(Val(req.payload.title)))
    => (resp.status = 422 /\ Unchanged)

C1_Witness ==
    /\ req.op = "create"
    /\ Authorized(req.auth)
    /\ req.payload.title = Some(<<" ">>)
    /\ resp.status = 422
    /\ before # {}

\* C2: a mutating request whose header is missing, is not a Bearer header or
\* carries another token returns 401 and changes nothing; ping, list and get
\* answer without a token.
C2_UnauthorizedRejected ==
    /\ (req.op \in Mutating /\ ~Authorized(req.auth))
           => (resp.status = 401 /\ resp.body = <<>> /\ Unchanged)
    /\ (req.op \in {"ping", "list"} /\ IsNone(req.auth)) => resp.status = 200
    /\ (req.op = "get" /\ IsNone(req.auth))
           => resp.status = (IF req.id \in Ids(before) THEN 200 ELSE 404)

C2_Witness ==
    /\ req.op = "create"
    /\ IsBearer(req.auth)
    /\ CarriedToken(req.auth) = <<"x">>
    /\ req.payload.title = Some(<<"a">>)
    /\ resp.status = 401
    /\ before # {}

\* C3: after DELETE /tasks/{id} returned 204 and until the next create, a GET
\* of that id returns 404 and no listing holds the task.
C3_DeletedIsNotFound ==
    /\ (req.op = "delete" /\ resp.status = 204) => req.id \in Ids(before)
    /\ (req.op = "get" /\ req.id \in gone) => resp.status = 404
    /\ req.op = "list" => \A i \in 1..Len(resp.body) : resp.body[i].id \notin gone

C3_Witness ==
    /\ req.op = "get"
    /\ req.id \in gone
    /\ resp.status = 404
    /\ tasks # {}

\* C4: a successful PATCH changes only the fields present in the payload; the
\* absent ones, id, created_at and every other task stay as they were, and
\* {"done": true} sets done.
C4_PartialUpdateFrame ==
    (req.op = "update" /\ resp.status = 200) =>
        /\ req.id \in Ids(before)
        /\ Cardinality({t \in tasks : t.id = req.id}) = 1
        /\ LET old == RowOf(before, req.id)
               new == RowOf(tasks, req.id)
               p == req.payload
           IN  /\ IsNone(p.title) => new.title = old.title
               /\ IsNone(p.description) => new.description = old.description
               /\ IsNone(p.done) => new.done = old.done
               /\ ~IsNone(p.done) => new.done = Val(p.done)
               /\ new.id = old.id
               /\ new.created_at = old.created_at
               /\ resp.body = <<new>>
        /\ {t \in tasks : t.id # req.id} = {t \in before : t.id # req.id}

C4_Witness ==
    /\ req.op = "update"
    /\ resp.status = 200
    /\ req.payload = Payload(None, None, Some(TRUE))
    /\ Cardinality(tasks) >= 2
    /\ RowOf(before, req.id).done = FALSE
    /\ RowOf(before, req.id).description # DefaultDescription
    /\ RowOf(before, req.id).created_at > 0
    /\ RowOf(tasks, req.id).done = TRUE

\* C5: GET /tasks returns the tasks matching the done filter, ordered by
\* created_at then id (descending for newest, ascending for oldest), without
\* the first offset of them and at most limit long.  A created task sorts
\* after every task stored before it, so three tasks created in a row list
\* newest first, and limit=2, offset=1, sort=oldest yields the second and
\* third.
C5_ListPage ==
    /\ (/\ req.op = "list"
        /\ req.limit \in 1..100
        /\ req.offset >= 0
        /\ req.sort \in {"newest", "oldest"}) =>
           LET matching == {t \in before :
                               IsNone(req.done) \/ t.done = Val(req.done)}
               Rank(t) == Cardinality({u \in matching :
                                          Precedes(u, t, req.sort)})
           IN  /\ resp.status = 200
               /\ Len(resp.body) =
                      Min(req.limit, Max(0, Cardinality(matching) - req.offset))
               /\ \A i \in 1..Len(resp.body) :
                      /\ resp.body[i] \in matching
                      /\ Rank(resp.body[i]) = req.offset + i - 1
    /\ (req.op = "create" /\ resp.status = 201) =>
           \A u \in before : Precedes(resp.body[1], u, "newest")
    /\ (/\ req.op = "list"
        /\ Ids(before) = {1, 2, 3}
        /\ IsNone(req.done)) =>
           /\ (req.sort = "newest" /\ req.offset = 0 /\ req.limit = 3)
                  => BodyIds = <<3, 2, 1>>
           /\ (req.sort = "oldest" /\ req.offset = 1 /\ req.limit = 2)
                  => BodyIds = <<2, 3>>

C5_Witness ==
    /\ req.op = "list"
    /\ Ids(before) = {1, 2, 3}
    /\ \A t \in before : t.created_at = 1
    /\ IsNone(req.done)
    /\ req.sort = "oldest"
    /\ req.offset = 1
    /\ req.limit = 2
    /\ BodyIds = <<2, 3>>

\* C6: the id a successful POST /tasks returns differs from the id of every
\* task created earlier, deleted ones included.
C6_IdNeverReused ==
    (req.op = "create" /\ resp.status = 201)
        => resp.body[1].id \notin issued_before

\* C7 as stated: an authorized PATCH or DELETE, or a GET, of an id that
\* matches no stored task returns 404 and leaves the stored tasks as they were.
C7_UnknownIdIs404 ==
    (/\ req.id \notin Ids(before)
     /\ \/ req.op = "get"
        \/ req.op \in {"update", "delete"} /\ Authorized(req.auth))
    => (resp.status = 404 /\ Unchanged)

\* C7 amended: the same, for a PATCH whose payload passes validation; a PATCH
\* with a blank title returns 422 whatever the id, and changes nothing.
C7_UnknownIdIs404_Valid ==
    /\ (/\ req.id \notin Ids(before)
        /\ \/ req.op = "get"
           \/ req.op = "delete" /\ Authorized(req.auth)
           \/ /\ req.op = "update"
              /\ Authorized(req.auth)
              /\ (IsNone(req.payload.title) \/ ~Blank(Val(req.payload.title))))
       => (resp.status = 404 /\ resp.body = <<>> /\ Unchanged)
    /\ (/\ req.id \notin Ids(before)
        /\ req.op = "update"
        /\ Authorized(req.auth)
        /\ ~IsNone(req.payload.title)
        /\ Blank(Val(req.payload.title)))
       => (resp.status = 422 /\ Unchanged)

C7_Witness ==
    /\ req.op = "update"
    /\ Authorized(req.auth)
    /\ req.payload.title = Some(<<"a">>)
    /\ req.id \notin Ids(before)
    /\ before # {}
    /\ resp.status = 404

\* C8: an authorized POST /tasks without a title (absent or null) returns 422
\* and stores nothing.
C8_MissingTitleIs422 ==
    (/\ req.op = "create"
     /\ Authorized(req.auth)
     /\ IsNone(req.payload.title))
    => (resp.status = 422 /\ Unchanged)

\* C9: a title whose trimmed length is outside 3..80 is rejected with 422 by
\* POST and PATCH and nothing changes, so every stored title is 3 to 80
\* characters long.
C9_TitleLengthBounded ==
    /\ (/\ req.op \in {"create", "update"}
        /\ Authorized(req.auth)
        /\ ~IsNone(req.payload.title)
        /\ Len(Strip(Val(req.payload.title))) \notin 3..80)
       => (resp.status = 422 /\ Unchanged)
    /\ \A t \in tasks : Len(t.title) \in 3..80

\* A stored title is non-empty and has no whitespace at either end
TitleWellFormed(t) ==
    /\ t.title # <<>>
    /\ t.title[1] \notin Whitespace
    /\ t.title[Len(t.title)] \notin Whitespace

\* C10 as stated: every stored title is non-empty without surrounding
\* whitespace, and any PATCH carrying a blank title returns 422 and leaves
\* the stored title alone.
C10_TitleNeverBlank ==
    /\ \A t \in tasks : TitleWellFormed(t)
    /\ (/\ req.op = "update"
        /\ ~IsNone(req.payload.title)
        /\ Blank(Val(req.payload.title)))
       => (resp.status = 422 /\ Unchanged)

\* C10 amended: the same, the 422 being the answer to an authorized PATCH; an
\* unauthorized one is answered 401, and neither changes a stored title.
C10_TitleNeverBlank_Authorized ==
    /\ \A t \in tasks : TitleWellFormed(t)
    /\ (/\ req.op = "update"
        /\ ~IsNone(req.payload.title)
        /\ Blank(Val(req.payload.title)))
       => /\ resp.status = (IF Authorized(req.auth) THEN 422 ELSE 401)
          /\ Unchanged

C10_Witness ==
    /\ req.op = "update"
    /\ Authorized(req.auth)
    /\ req.payload.title = Some(<<" ">>)
    /\ req.id \in Ids(before)
    /\ resp.status = 422
    /\ \E t \in tasks : t.title = <<"b">>

====
